---- MODULE Spec2Model ----
(***************************************************************************)
(* Dynamic bounding-volume hierarchy of src/engine/bvh.rs over the AABB of *)
(* src/engine/aabb.rs.                                                     *)
(*                                                                         *)
(* Coordinates are fixed-point integers in units of 0.1, so that           *)
(* AABB_EXTENSION (0.1) is 1.  Areas are then in units of 0.01 and every   *)
(* comparison the code makes between areas keeps its outcome (f32 rounding *)
(* is not modelled).  Node ids are the arena indices 0, 1, 2, ... of the   *)
(* source; node_at(b, id) is element id + 1 of the TLA+ sequence.          *)
(***************************************************************************)
EXTENDS Integers, Sequences, FiniteSets, TLC

\* ---------------------------------------------------------------- bounds
\* Arena slots the model lets the tree allocate (the Vec is unbounded).
MaxNodes == 6
\* The same for callers that also pass stale ids.
MaxNodesStale == 4

\* The same for callers that also call move_obj with a zero displacement.
MaxNodesStill == 5

\* The same for the program run twice with different random choices.
MaxNodesTwin == 5

\* Arena slots and objects of the callers that keep moving a few objects.
MaxNodesDeep == 8
MaxObjectsDeep == 3

\* ------------------------------------------------------------- constants
\* !0u32: larger than every arena index (TLC integers are 32-bit signed, the
\* model uses the largest of them).
INVALID_BVH_NODE_ID == 2147483647
\* BVH::AABB_EXTENSION = 0.1, in units of 0.1
AABB_EXTENSION == 1
\* BVH::AABB_MULTIPLIER = 2.0
AABB_MULTIPLIER == 2
\* f32::MAX of AABB::new(); every coordinate of the model is far below it.
F32_MAX == 1000000

\* ------------------------------------------------------------------ AABB
vec3(x, y, z) == <<x, y, z>>

Min(a, b) == IF a < b THEN a ELSE b
Max(a, b) == IF a > b THEN a ELSE b

from_min_max(min, max) == [min |-> min, max |-> max]

\* AABB::new(): the inverted box
AABB_new == from_min_max(vec3(F32_MAX, F32_MAX, F32_MAX),
                         vec3(-F32_MAX, -F32_MAX, -F32_MAX))

\* a union that keeps the min corner of its first operand
union_keeps_min(a, b) ==
    from_min_max(a.min,
                 vec3(Max(a.max[1], b.max[1]), Max(a.max[2], b.max[2]), Max(a.max[3], b.max[3])))

union(a, b) ==
    from_min_max(vec3(Min(a.min[1], b.min[1]), Min(a.min[2], b.min[2]), Min(a.min[3], b.min[3])),
                 vec3(Max(a.max[1], b.max[1]), Max(a.max[2], b.max[2]), Max(a.max[3], b.max[3])))

area(a) ==
    LET dx == a.max[1] - a.min[1]
        dy == a.max[2] - a.min[2]
        dz == a.max[3] - a.min[3]
    IN  2 * (dx * dy + dy * dz + dz * dx)

intersects(self, other) ==
    IF self.max[1] < other.min[1] \/ self.min[1] > other.max[1] THEN FALSE
    ELSE IF self.max[2] < other.min[2] \/ self.min[2] > other.max[2] THEN FALSE
    ELSE IF self.max[3] < other.min[3] \/ self.min[3] > other.max[3] THEN FALSE
    ELSE TRUE

contains(self, other) ==
    /\ self.min[1] <= other.min[1]
    /\ self.min[2] <= other.min[2]
    /\ self.min[3] <= other.min[3]
    /\ other.max[1] <= self.max[1]
    /\ other.max[2] <= self.max[2]
    /\ other.max[3] <= self.max[3]

contains_point(self, point) ==
    /\ self.min[1] <= point[1]
    /\ self.min[2] <= point[2]
    /\ self.min[3] <= point[3]
    /\ self.max[1] <= point[1]
    /\ self.max[2] <= point[2]
    /\ self.max[3] <= point[3]

Sq(x) == x * x

\* a test that also accepts a sphere that only touches the box
within_sphere_touching(self, sphere) ==
    LET r0 == Sq(sphere.radius)
        r1 == IF sphere.center[1] < self.min[1] THEN r0 - Sq(sphere.center[1] - self.min[1]) ELSE r0
        r2 == IF sphere.center[1] > self.max[1] THEN r1 - Sq(sphere.center[1] - self.max[1]) ELSE r1
        r3 == IF sphere.center[2] < self.min[2] THEN r2 - Sq(sphere.center[2] - self.min[2]) ELSE r2
        r4 == IF sphere.center[2] > self.max[2] THEN r3 - Sq(sphere.center[2] - self.max[2]) ELSE r3
        r5 == IF sphere.center[3] < self.min[3] THEN r4 - Sq(sphere.center[3] - self.min[3]) ELSE r4
        r6 == IF sphere.center[3] > self.max[3] THEN r5 - Sq(sphere.center[3] - self.max[3]) ELSE r5
    IN  r6 >= 0

\* sphere = [center |-> vec3, radius |-> r]
within_sphere(self, sphere) ==
    LET r0 == Sq(sphere.radius)
        r1 == IF sphere.center[1] < self.min[1] THEN r0 - Sq(sphere.center[1] - self.min[1]) ELSE r0
        r2 == IF sphere.center[1] > self.max[1] THEN r1 - Sq(sphere.center[1] - self.max[1]) ELSE r1
        r3 == IF sphere.center[2] < self.min[2] THEN r2 - Sq(sphere.center[2] - self.min[2]) ELSE r2
        r4 == IF sphere.center[2] > self.max[2] THEN r3 - Sq(sphere.center[2] - self.max[2]) ELSE r3
        r5 == IF sphere.center[3] < self.min[3] THEN r4 - Sq(sphere.center[3] - self.min[3]) ELSE r4
        r6 == IF sphere.center[3] > self.max[3] THEN r5 - Sq(sphere.center[3] - self.max[3]) ELSE r5
    IN  r6 > 0

dot(a, b) == a[1] * b[1] + a[2] * b[2] + a[3] * b[3]

\* plane = [normal |-> vec3, dist |-> d]
get_furthest_corner(self, plane) ==
    vec3(IF plane.normal[1] > 0 THEN self.max[1] ELSE self.min[1],
         IF plane.normal[2] > 0 THEN self.max[2] ELSE self.min[2],
         IF plane.normal[3] > 0 THEN self.max[3] ELSE self.min[3])

\* AABB::bounding_sphere: center (max + min) * 0.5 and radius
\* distance(center, min).  To stay in the integers the sphere is held as twice
\* its center and the square of twice its radius, |max - min|^2.
bounding_sphere(self) ==
    [center2 |-> vec3(self.max[1] + self.min[1], self.max[2] + self.min[2], self.max[3] + self.min[3]),
     diameter_sq |-> Sq(self.max[1] - self.min[1]) + Sq(self.max[2] - self.min[2])
                     + Sq(self.max[3] - self.min[3])]

\* f32 arithmetic on values in [1.0, 2.0), held as integers in units of
\* 2^-23, the spacing of f32 there: F32_ONE is 1.0.
F32_ONE == 8388608

\* x + y in f32 for x, y in [1.0, 2.0): the sum lies in [2.0, 4.0), where the
\* spacing is two units; an odd sum is a tie and goes to the even mantissa
f32_add(x, y) ==
    LET sum == x + y
    IN  IF sum % 2 = 0 THEN sum
        ELSE IF (sum + 1) % 4 = 0 THEN sum + 1
        ELSE sum - 1

\* x * 0.5 in f32 for the value of f32_add: exact
f32_half(x) == x \div 2

\* AABB::center in f32
center_f32(self) ==
    vec3(f32_half(f32_add(self.max[1], self.min[1])),
         f32_half(f32_add(self.max[2], self.min[2])),
         f32_half(f32_add(self.max[3], self.min[3])))

\* AABB::bounding_sphere in f32, for a box that extends along x only: center
\* and min then differ on x only, center - min is exact and its norm is
\* |center.x - min.x|
bounding_sphere_f32(self) ==
    LET center == center_f32(self)
        dx == center[1] - self.min[1]
    IN  [center |-> center, radius |-> IF dx < 0 THEN 0 - dx ELSE dx]

\* Sphere::within_frustrum on a sphere held that way:
\* normal.dot(center) + dist + radius < 0  is, doubled,  s + 2 * radius < 0,
\* that is  s < 0  and  (2 * radius)^2 < s^2
Sphere_within_frustrum(sphere, frustrum) ==
    \A i \in 1..Len(frustrum.planes) :
        LET plane == frustrum.planes[i]
            s2 == dot(plane.normal, sphere.center2) + 2 * plane.dist
        IN  ~(s2 < 0 /\ sphere.diameter_sq < Sq(s2))

\* a test that wants the corner nearest to each plane in front of it
within_frustrum_inside(self, frustrum) ==
    \A i \in 1..Len(frustrum.planes) :
        LET plane == frustrum.planes[i]
            vmin == vec3(IF plane.normal[1] > 0 THEN self.min[1] ELSE self.max[1],
                         IF plane.normal[2] > 0 THEN self.min[2] ELSE self.max[2],
                         IF plane.normal[3] > 0 THEN self.min[3] ELSE self.max[3])
        IN  dot(plane.normal, vmin) + plane.dist >= 0

\* frustrum = [planes |-> sequence of six planes]; debug only prints
within_frustrum(self, frustrum) ==
    LET value(i) == dot(frustrum.planes[i].normal,
                        get_furthest_corner(self, frustrum.planes[i]))
                    + frustrum.planes[i].dist
    IN  IF \E i \in 1..Len(frustrum.planes) : value(i) < 0
            THEN Sphere_within_frustrum(bounding_sphere(self), frustrum)
            ELSE TRUE

\* f32 values of raycast: <<"fin", v>>, <<"inf", 1>> (+inf), <<"inf", -1>>
\* (-inf) and <<"nan", 0>>
Fin(v) == <<"fin", v>>
PInf == <<"inf", 1>>
NInf == <<"inf", -1>>
NaN == <<"nan", 0>>

\* a < b on f32 values that are not NaN
FLess(a, b) ==
    IF a[1] = "inf" THEN a[2] = -1 /\ b # a
    ELSE IF b[1] = "inf" THEN b[2] = 1
    ELSE a[2] < b[2]

\* f32::min and f32::max: when one argument is NaN the other is returned
f32_min(a, b) == IF a = NaN THEN b ELSE IF b = NaN THEN a ELSE IF FLess(b, a) THEN b ELSE a
f32_max(a, b) == IF a = NaN THEN b ELSE IF b = NaN THEN a ELSE IF FLess(a, b) THEN b ELSE a

\* a >= b, false when either is NaN
f32_ge(a, b) == a # NaN /\ b # NaN /\ ~FLess(a, b)

\* a product that takes 1.0 / 0.0 to be 0.0
MulInvGuarded(x, dir) ==
    IF dir = 1 THEN Fin(x)
    ELSE IF dir = -1 THEN Fin(-x)
    ELSE Fin(0)

\* x * (1.0 / dir) for a finite x and a direction component dir in {-1, 0, 1}:
\* 1.0 / 0.0 is +inf, and 0.0 * inf is NaN
MulInv(x, dir) ==
    IF dir = 1 THEN Fin(x)
    ELSE IF dir = -1 THEN Fin(-x)
    ELSE IF x > 0 THEN PInf
    ELSE IF x < 0 THEN NInf
    ELSE NaN

\* ray = [origin |-> vec3, dir |-> vec3 with components in {-1, 0, 1}]
raycast(self, ray) ==
    LET tx1 == MulInv(self.min[1] - ray.origin[1], ray.dir[1])
        tx2 == MulInv(self.max[1] - ray.origin[1], ray.dir[1])
        tmin0 == f32_min(tx1, tx2)
        tmax0 == f32_max(tx1, tx2)
        ty1 == MulInv(self.min[2] - ray.origin[2], ray.dir[2])
        ty2 == MulInv(self.max[2] - ray.origin[2], ray.dir[2])
        tmin1 == f32_max(tmin0, f32_min(ty1, ty2))
        tmax1 == f32_min(tmax0, f32_max(ty1, ty2))
        tz1 == MulInv(self.min[3] - ray.origin[3], ray.dir[3])
        tz2 == MulInv(self.max[3] - ray.origin[3], ray.dir[3])
        tmin == f32_max(tmin1, f32_min(tz1, tz2))
        tmax == f32_min(tmax1, f32_max(tz1, tz2))
    IN  f32_ge(tmax, tmin) /\ f32_ge(tmax, Fin(0))

\* a fattening that forgets  new_aabb.max += r
FattenMinOnly(a) ==
    from_min_max(vec3(a.min[1] - AABB_EXTENSION, a.min[2] - AABB_EXTENSION, a.min[3] - AABB_EXTENSION),
                 a.max)

\* new_aabb.min -= r; new_aabb.max += r  with r = (EXT, EXT, EXT)
Fatten(a) ==
    from_min_max(vec3(a.min[1] - AABB_EXTENSION, a.min[2] - AABB_EXTENSION, a.min[3] - AABB_EXTENSION),
                 vec3(a.max[1] + AABB_EXTENSION, a.max[2] + AABB_EXTENSION, a.max[3] + AABB_EXTENSION))

\* a prediction that forgets AABB_MULTIPLIER
PredictUnscaled(a, displacement) ==
    LET lo(i) == IF displacement[i] < 0 THEN a.min[i] + displacement[i] ELSE a.min[i]
        hi(i) == IF displacement[i] < 0 THEN a.max[i] ELSE a.max[i] + displacement[i]
    IN  from_min_max(vec3(lo(1), lo(2), lo(3)), vec3(hi(1), hi(2), hi(3)))

\* a prediction that extends the box against the movement
PredictBackwards(a, displacement) ==
    LET d == vec3(AABB_MULTIPLIER * displacement[1],
                  AABB_MULTIPLIER * displacement[2],
                  AABB_MULTIPLIER * displacement[3])
        lo(i) == IF d[i] < 0 THEN a.min[i] ELSE a.min[i] - d[i]
        hi(i) == IF d[i] < 0 THEN a.max[i] - d[i] ELSE a.max[i]
    IN  from_min_max(vec3(lo(1), lo(2), lo(3)), vec3(hi(1), hi(2), hi(3)))

\* the "Predict AABB displacement" block of move_obj
Predict(a, displacement) ==
    LET d == vec3(AABB_MULTIPLIER * displacement[1],
                  AABB_MULTIPLIER * displacement[2],
                  AABB_MULTIPLIER * displacement[3])
        lo(i) == IF d[i] < 0 THEN a.min[i] + d[i] ELSE a.min[i]
        hi(i) == IF d[i] < 0 THEN a.max[i] ELSE a.max[i] + d[i]
    IN  from_min_max(vec3(lo(1), lo(2), lo(3)), vec3(hi(1), hi(2), hi(3)))

\* ------------------------------------------------------------------- BVH
\* A tree value b is [nodes, root_id, panic]: the fields of struct BVH plus the
\* panic that ended the call ("" while none has).  A panic keeps the fields as
\* they were when it was raised.
NoPanic == ""
IndexPanic == "index out of bounds"
AssertPanic == "assertion failed"
\* a loop that never ends (a cycle in the links it follows)
HangPanic == "hang"

Trap(b, why) == [b EXCEPT !.panic = why]

\* the bounds check of self.nodes[id as usize]
InRange(b, id) == id >= 0 /\ id < Len(b.nodes)

node_at(b, id) == b.nodes[id + 1]

is_leaf(node) == node.left = INVALID_BVH_NODE_ID

get_left(b, id) == node_at(b, id).left
get_right(b, id) == node_at(b, id).right
get_parent_id(b, id) == node_at(b, id).parent_id
get_volume(b, id) == node_at(b, id).volume

set_left(b, id, left) == [b EXCEPT !.nodes[id + 1].left = left]
set_right(b, id, right) == [b EXCEPT !.nodes[id + 1].right = right]
set_parent(b, id, parent_id) == [b EXCEPT !.nodes[id + 1].parent_id = parent_id]
set_volume(b, id, volume) == [b EXCEPT !.nodes[id + 1].volume = volume]

\* BVH::new()
BVH_new == [nodes |-> <<>>, root_id |-> INVALID_BVH_NODE_ID, panic |-> NoPanic]

allocate_node(b, object, aabb) ==
    LET node_index == Len(b.nodes)
        new_node == [volume |-> aabb,
                     left |-> INVALID_BVH_NODE_ID,
                     right |-> INVALID_BVH_NODE_ID,
                     parent_id |-> INVALID_BVH_NODE_ID,
                     object |-> <<object>>,
                     height |-> 0]
    IN  [b EXCEPT !.nodes = Append(b.nodes, new_node),
                  !.root_id = IF b.root_id = INVALID_BVH_NODE_ID THEN node_index ELSE b.root_id]

\* an internal node that is given a payload
new_internal_node_tagged(b, parent, height, left_id, right_id, x_lt_half) ==
    LET new_node == [volume |-> AABB_new,
                     left |-> IF x_lt_half THEN left_id ELSE right_id,
                     right |-> IF x_lt_half THEN right_id ELSE left_id,
                     parent_id |-> parent,
                     object |-> <<0>>,
                     height |-> height]
    IN  [b EXCEPT !.nodes = Append(b.nodes, new_node)]

\* x_lt_half is the outcome of  rng.gen_range(0.0..1.0) < 0.5 ; the new node's
\* id is Len(b.nodes)
new_internal_node(b, parent, height, left_id, right_id, x_lt_half) ==
    LET new_node == [volume |-> AABB_new,
                     left |-> IF x_lt_half THEN left_id ELSE right_id,
                     right |-> IF x_lt_half THEN right_id ELSE left_id,
                     parent_id |-> parent,
                     object |-> <<>>,
                     height |-> height]
    IN  [b EXCEPT !.nodes = Append(b.nodes, new_node)]

\* a refit that stores the union in the left child instead of the node
RECURSIVE adjust_loop_left(_, _, _)
adjust_loop_left(b, index, fuel) ==
    IF index = INVALID_BVH_NODE_ID THEN b
    ELSE IF ~InRange(b, index) THEN Trap(b, IndexPanic)
    ELSE IF fuel = 0 THEN Trap(b, HangPanic)
    ELSE LET left == get_left(b, index)
             right == get_right(b, index)
         IN  IF left = INVALID_BVH_NODE_ID \/ right = INVALID_BVH_NODE_ID
                 THEN Trap(b, AssertPanic)
             ELSE IF ~InRange(b, left) \/ ~InRange(b, right) THEN Trap(b, IndexPanic)
             ELSE adjust_loop_left(set_volume(b, left, union(get_volume(b, left), get_volume(b, right))),
                                   get_parent_id(b, index), fuel - 1)

\* The loop runs once per node of the parent chain; fuel counts the rounds a
\* chain without a cycle can need.
RECURSIVE adjust_loop(_, _, _)
adjust_loop(b, index, fuel) ==
    IF index = INVALID_BVH_NODE_ID THEN b
    ELSE IF ~InRange(b, index) THEN Trap(b, IndexPanic)
    ELSE IF fuel = 0 THEN Trap(b, HangPanic)
    ELSE LET left == get_left(b, index)
             right == get_right(b, index)
         IN  IF left = INVALID_BVH_NODE_ID \/ right = INVALID_BVH_NODE_ID
                 THEN Trap(b, AssertPanic)
             ELSE IF ~InRange(b, left) \/ ~InRange(b, right) THEN Trap(b, IndexPanic)
             ELSE adjust_loop(set_volume(b, index, union(get_volume(b, left), get_volume(b, right))),
                              get_parent_id(b, index), fuel - 1)

\* a refit that starts at the parent of index
adjust_bounds_above(b, index) == adjust_loop(b, get_parent_id(b, index), Len(b.nodes) + 1)

adjust_bounds(b, index) == adjust_loop(b, index, Len(b.nodes) + 1)

\* a round of the descent that steps left when the two child costs are equal
DescentStepLeftOnTie(b, index, aabb) ==
    LET left == get_left(b, index)
        right == get_right(b, index)
        node_area == area(get_volume(b, index))
        combined_aabb == union(get_volume(b, index), aabb)
        combined_area == area(combined_aabb)
        cost == 2 * combined_area
        inheritance_cost == 2 * (combined_area - node_area)
        child_cost(c) ==
            (IF is_leaf(node_at(b, c))
                THEN area(union(aabb, get_volume(b, c)))
                ELSE area(union(aabb, get_volume(b, c))) - area(get_volume(b, c)))
            + inheritance_cost
        left_cost == child_cost(left)
        right_cost == child_cost(right)
    IN  IF ~InRange(b, left) \/ ~InRange(b, right) THEN [panic |-> IndexPanic, stop |-> TRUE, index |-> index]
        ELSE IF cost < left_cost /\ cost < right_cost THEN [panic |-> NoPanic, stop |-> TRUE, index |-> index]
        ELSE IF left_cost <= right_cost THEN [panic |-> NoPanic, stop |-> FALSE, index |-> left]
        ELSE [panic |-> NoPanic, stop |-> FALSE, index |-> right]

\* One round of the descent loop of insert_leaf at node index, for a new leaf
\* of volume aabb: "break" or the child to descend into.
DescentStep(b, index, aabb) ==
    LET left == get_left(b, index)
        right == get_right(b, index)
        node_area == area(get_volume(b, index))
        combined_aabb == union(get_volume(b, index), aabb)
        combined_area == area(combined_aabb)
        cost == 2 * combined_area
        inheritance_cost == 2 * (combined_area - node_area)
        child_cost(c) ==
            (IF is_leaf(node_at(b, c))
                THEN area(union(aabb, get_volume(b, c)))
                ELSE area(union(aabb, get_volume(b, c))) - area(get_volume(b, c)))
            + inheritance_cost
        left_cost == child_cost(left)
        right_cost == child_cost(right)
    IN  IF ~InRange(b, left) \/ ~InRange(b, right) THEN [panic |-> IndexPanic, stop |-> TRUE, index |-> index]
        ELSE IF cost < left_cost /\ cost < right_cost THEN [panic |-> NoPanic, stop |-> TRUE, index |-> index]
        ELSE IF left_cost < right_cost THEN [panic |-> NoPanic, stop |-> FALSE, index |-> left]
        ELSE [panic |-> NoPanic, stop |-> FALSE, index |-> right]

\* "Find the best sibling for the new leaf": the while loop of insert_leaf
RECURSIVE FindBestSibling(_, _, _, _)
FindBestSibling(b, index, aabb, fuel) ==
    IF ~InRange(b, index) THEN [panic |-> IndexPanic, index |-> index]
    ELSE IF is_leaf(node_at(b, index)) THEN [panic |-> NoPanic, index |-> index]
    ELSE IF fuel = 0 THEN [panic |-> HangPanic, index |-> index]
    ELSE LET s == DescentStep(b, index, aabb)
         IN  IF s.stop THEN [panic |-> s.panic, index |-> s.index]
             ELSE FindBestSibling(b, s.index, aabb, fuel - 1)

\* a new parent that is hung below old_parent only when the sibling was its
\* left child
LinkNewParentLeftOnly(b, new_node, best_sibling, x_lt_half) ==
    LET old_parent == get_parent_id(b, best_sibling)
        new_parent == Len(b.nodes)
        b1 == new_internal_node(b, old_parent, node_at(b, best_sibling).height + 1,
                                new_node, best_sibling, x_lt_half)
        b2 == IF old_parent # INVALID_BVH_NODE_ID
                 THEN IF ~InRange(b1, old_parent) THEN Trap(b1, IndexPanic)
                      ELSE IF get_left(b1, old_parent) = best_sibling
                          THEN set_left(b1, old_parent, new_parent)
                      ELSE b1
                 ELSE [b1 EXCEPT !.root_id = new_parent]
    IN  IF b2.panic # NoPanic THEN b2
        ELSE adjust_bounds(set_parent(set_parent(b2, best_sibling, new_parent),
                                      new_node, new_parent),
                           new_parent)

\* The boxes whose area() the descent of insert_leaf evaluates from node index
\* on, for a new leaf of volume aabb.
RECURSIVE AreaReads(_, _, _, _)
AreaReads(b, index, aabb, fuel) ==
    IF ~InRange(b, index) \/ fuel = 0 THEN {}
    ELSE IF is_leaf(node_at(b, index)) THEN {}
    ELSE LET left == get_left(b, index)
             right == get_right(b, index)
             child_reads(c) ==
                 IF ~InRange(b, c) THEN {}
                 ELSE IF is_leaf(node_at(b, c)) THEN {union(aabb, get_volume(b, c))}
                 ELSE {union(aabb, get_volume(b, c)), get_volume(b, c)}
             here == {get_volume(b, index), union(get_volume(b, index), aabb)}
                         \cup child_reads(left) \cup child_reads(right)
         IN  IF ~InRange(b, left) \/ ~InRange(b, right) THEN here
             ELSE LET s == DescentStep(b, index, aabb)
                  IN  IF s.stop THEN here
                      ELSE here \cup AreaReads(b, s.index, aabb, fuel - 1)

\* "Create a new parent" to the end of insert_leaf
LinkNewParent(b, new_node, best_sibling, x_lt_half) ==
    LET old_parent == get_parent_id(b, best_sibling)
        new_parent == Len(b.nodes)
        b1 == new_internal_node(b, old_parent, node_at(b, best_sibling).height + 1,
                                new_node, best_sibling, x_lt_half)
        b2 == IF old_parent # INVALID_BVH_NODE_ID
                 THEN IF ~InRange(b1, old_parent) THEN Trap(b1, IndexPanic)
                      ELSE IF get_left(b1, old_parent) = best_sibling
                          THEN set_left(b1, old_parent, new_parent)
                      ELSE IF get_right(b1, old_parent) # best_sibling
                          THEN Trap(b1, AssertPanic)
                      ELSE set_right(b1, old_parent, new_parent)
                 ELSE [b1 EXCEPT !.root_id = new_parent]
    IN  IF b2.panic # NoPanic THEN b2
        ELSE adjust_bounds(set_parent(set_parent(b2, best_sibling, new_parent),
                                      new_node, new_parent),
                           new_parent)

insert_leaf(b, new_node, x_lt_half) ==
    IF new_node = b.root_id THEN b
    ELSE LET found == FindBestSibling(b, b.root_id, get_volume(b, new_node), Len(b.nodes) + 1)
         IN  IF found.panic # NoPanic THEN Trap(b, found.panic)
             ELSE LinkNewParent(b, new_node, found.index, x_lt_half)

remove_leaf(b, leaf) ==
    IF leaf = b.root_id THEN [b EXCEPT !.root_id = INVALID_BVH_NODE_ID]
    ELSE LET parent == get_parent_id(b, leaf)
         IN  IF ~InRange(b, parent) THEN Trap(b, IndexPanic)
             ELSE LET grand_parent == get_parent_id(b, parent)
                      sibling == IF get_left(b, parent) = leaf
                                    THEN get_right(b, parent)
                                    ELSE get_left(b, parent)
                  IN  IF grand_parent # INVALID_BVH_NODE_ID
                         THEN IF ~InRange(b, grand_parent) THEN Trap(b, IndexPanic)
                              ELSE LET b1 == IF get_left(b, grand_parent) = parent
                                                THEN set_left(b, grand_parent, sibling)
                                                ELSE set_right(b, grand_parent, sibling)
                                   IN  IF ~InRange(b1, sibling) THEN Trap(b1, IndexPanic)
                                       ELSE adjust_bounds(set_parent(b1, sibling, grand_parent),
                                                          grand_parent)
                         ELSE set_parent([b EXCEPT !.root_id = sibling],
                                         leaf, INVALID_BVH_NODE_ID)

\* insert returns proxy_id = Len(b.nodes), the index allocate_node gives
insert(b, object, aabb, x_lt_half) ==
    LET proxy_id == Len(b.nodes)
        b1 == allocate_node(b, object, aabb)
        b2 == set_volume(b1, proxy_id, Fatten(get_volume(b1, proxy_id)))
    IN  insert_leaf(b2, proxy_id, x_lt_half)

\* remove without its second assertion
remove_unchecked(b, node_id) ==
    IF ~(node_id < Len(b.nodes)) THEN Trap(b, AssertPanic)
    ELSE remove_leaf(b, node_id)

remove(b, node_id) ==
    IF ~(node_id < Len(b.nodes)) THEN Trap(b, AssertPanic)
    ELSE IF ~is_leaf(node_at(b, node_id)) THEN Trap(b, AssertPanic)
    ELSE remove_leaf(b, node_id)

\* an early return that misses a box touching the stored volume from outside
MoveKeepsStrict(b, proxy_id, aabb) ==
    LET v == get_volume(b, proxy_id)
    IN  /\ v.min[1] < aabb.min[1] /\ aabb.max[1] < v.max[1]
        /\ v.min[2] < aabb.min[2] /\ aabb.max[2] < v.max[2]
        /\ v.min[3] < aabb.min[3] /\ aabb.max[3] < v.max[3]

\* the early return of move_obj
MoveKeeps(b, proxy_id, aabb) == intersects(get_volume(b, proxy_id), aabb)

\* [b |-> the tree after the call, ret |-> the value returned (FALSE when the
\* call panicked and returned nothing)]
move_obj(b, proxy_id, aabb, displacement, x_lt_half) ==
    IF ~(proxy_id < Len(b.nodes)) THEN [b |-> Trap(b, AssertPanic), ret |-> FALSE]
    ELSE IF ~is_leaf(node_at(b, proxy_id)) THEN [b |-> Trap(b, AssertPanic), ret |-> FALSE]
    ELSE IF MoveKeeps(b, proxy_id, aabb) THEN [b |-> b, ret |-> FALSE]
    ELSE LET b1 == remove_leaf(b, proxy_id)
         IN  IF b1.panic # NoPanic THEN [b |-> b1, ret |-> FALSE]
             ELSE LET b2 == insert_leaf(set_volume(b1, proxy_id,
                                                   Predict(Fatten(aabb), displacement)),
                                        proxy_id, x_lt_half)
                  IN  [b |-> b2, ret |-> b2.panic = NoPanic]

\* --------------------------------------------------------------- inputs
\* the cube of side 0.2 with the given min corner
Cube(min) == from_min_max(min, vec3(min[1] + 2, min[2] + 2, min[3] + 2))

\* Tight boxes handed to insert and move_obj.  The fattened first cube
\* overlaps the second without containing it; the third is disjoint from the
\* fattened first and second.
TightBoxes == {Cube(vec3(0, 0, 0)), Cube(vec3(2, 1, 0)), Cube(vec3(6, 0, 0))}

\* Displacement vectors handed to move_obj: one component of each sign, so
\* that both branches of every  d < 0.0  test are taken.
Displacements == {vec3(-1, 0, 1)}

\* a sphere that every volume of the model is within
AllSphere == [center |-> vec3(3, 1, 1), radius |-> 100]

\* spheres handed to iter_sphere
Spheres == {[center |-> vec3(0, 1, 1), radius |-> 2],
            [center |-> vec3(8, 1, 1), radius |-> 2],
            AllSphere}

\* the frustrum whose six planes (left, right, top, bottom, near, far, normals
\* pointing inwards) bound the box from lo to hi
BoxFrustrum(lo, hi) ==
    [planes |-> << [normal |-> vec3(1, 0, 0), dist |-> -lo[1]],
                   [normal |-> vec3(-1, 0, 0), dist |-> hi[1]],
                   [normal |-> vec3(0, -1, 0), dist |-> hi[2]],
                   [normal |-> vec3(0, 1, 0), dist |-> -lo[2]],
                   [normal |-> vec3(0, 0, 1), dist |-> -lo[3]],
                   [normal |-> vec3(0, 0, -1), dist |-> hi[3]] >>]

\* a frustrum with an oblique left plane, x + y >= 7
ObliqueFrustrum ==
    [BoxFrustrum(vec3(-20, -20, -20), vec3(20, 20, 20))
        EXCEPT !.planes[1] = [normal |-> vec3(1, 1, 0), dist |-> -7]]

\* frustrums handed to iter_frustrum: around the third cube, around the first
\* cube, one whose left plane the fattened first cube is behind while its
\* bounding sphere is not, and the oblique one
Frustrums == {BoxFrustrum(vec3(6, -5, -5), vec3(12, 8, 8)),
              BoxFrustrum(vec3(-6, -3, -3), vec3(0, 5, 5)),
              BoxFrustrum(vec3(4, -5, -5), vec3(12, 8, 8)),
              ObliqueFrustrum}

\* frustrums whose planes face away from each other, so that a box can be
\* behind all six: one whose planes pass close to the fattened first cube and
\* one whose planes are far from every box
BehindFrustrums == {BoxFrustrum(vec3(4, 4, 4), vec3(-2, -2, -2)),
                    BoxFrustrum(vec3(40, 40, 40), vec3(-40, -40, -40))}

\* rays handed to iter_ray: along x through every cube, along z through the
\* third cube, and along x beside every cube
Rays == {[origin |-> vec3(-50, 1, 1), dir |-> vec3(1, 0, 0)],
         [origin |-> vec3(7, 1, -50), dir |-> vec3(0, 0, 1)],
         [origin |-> vec3(-50, 20, 20), dir |-> vec3(1, 0, 0)]}

\* ---------------------------------------------------------------- state
VARIABLES
    nodes,      \* BVH.nodes, the arena
    root_id,    \* BVH.root_id
    panic,      \* the panic that ended the program, NoPanic while it runs
    live,       \* ids returned by insert and not yet passed to remove
    removed,    \* ids passed to remove
    tight,      \* live id -> the tight AABB last supplied for it (insert, move_obj)
    twin,       \* a second run of the program, given the same calls with its own
                \* random choices: its nodes, root_id and panic, and the value
                \* its last move_obj returned
    last        \* the last call: its name, its id (argument, or result of insert),
                \* the value move_obj returned, whether the id was stale, whether
                \* the leaf's volume before the call contained the box passed,
                \* the displacement passed; for a call of an AABB function made
                \* without a tree, its name, its arguments and what it returned

vars == <<nodes, root_id, panic, live, removed, tight, twin, last>>

\* the BVH value held by the variables
Tree == [nodes |-> nodes, root_id |-> root_id, panic |-> panic]

Init ==
    /\ nodes = BVH_new.nodes
    /\ root_id = BVH_new.root_id
    /\ panic = BVH_new.panic
    /\ live = {}
    /\ removed = {}
    /\ tight = <<>>
    /\ twin = [nodes |-> BVH_new.nodes, root_id |-> BVH_new.root_id,
               panic |-> BVH_new.panic, ret |-> FALSE]
    /\ last = [op |-> "new", id |-> INVALID_BVH_NODE_ID, ret |-> FALSE,
               stale |-> FALSE, contained |-> FALSE, d |-> vec3(0, 0, 0)]

Store(b) ==
    /\ nodes' = b.nodes
    /\ root_id' = b.root_id
    /\ panic' = b.panic

\* bvh.insert(object, aabb); the caller passes a handle it has not used before.
\* cap is the number of arena slots the model allows.
Insert(aabb, x_lt_half, cap) ==
    /\ panic = NoPanic
    /\ Len(nodes) + 2 <= cap
    /\ LET object == Cardinality(live \cup removed)
           proxy_id == Len(nodes)
           b == insert(Tree, object, aabb, x_lt_half)
       IN  /\ Store(b)
           /\ live' = IF b.panic = NoPanic THEN live \cup {proxy_id} ELSE live
           /\ tight' = IF b.panic = NoPanic THEN (proxy_id :> aabb) @@ tight ELSE tight
           /\ last' = [op |-> "insert", id |-> proxy_id, ret |-> FALSE,
                       stale |-> FALSE, contained |-> FALSE, d |-> vec3(0, 0, 0)]
    /\ UNCHANGED removed

\* bvh.remove(node_id)
RemoveCall(node_id) ==
    /\ panic = NoPanic
    /\ LET b == remove(Tree, node_id)
       IN  /\ Store(b)
           /\ live' = IF b.panic = NoPanic THEN live \ {node_id} ELSE live
           /\ removed' = IF b.panic = NoPanic THEN removed \cup {node_id} ELSE removed
           /\ last' = [op |-> "remove", id |-> node_id, ret |-> FALSE,
                       stale |-> node_id \in removed, contained |-> FALSE,
                       d |-> vec3(0, 0, 0)]
           /\ tight' = IF b.panic = NoPanic
                          THEN [i \in DOMAIN tight \ {node_id} |-> tight[i]]
                          ELSE tight

\* bvh.move_obj(proxy_id, &aabb, &displacement)
MoveCall(proxy_id, aabb, displacement, x_lt_half, cap) ==
    /\ panic = NoPanic
    /\ IF InRange(Tree, proxy_id)
          THEN MoveKeeps(Tree, proxy_id, aabb) \/ Len(nodes) + 1 <= cap
          ELSE TRUE
    /\ LET r == move_obj(Tree, proxy_id, aabb, displacement, x_lt_half)
       IN  /\ Store(r.b)
           /\ last' = [op |-> "move_obj", id |-> proxy_id, ret |-> r.ret,
                       stale |-> proxy_id \in removed,
                       contained |-> /\ InRange(Tree, proxy_id)
                                     /\ contains(get_volume(Tree, proxy_id), aabb),
                       d |-> displacement]
    /\ tight' = IF proxy_id \in live THEN [tight EXCEPT ![proxy_id] = aabb] ELSE tight
    /\ UNCHANGED <<live, removed>>

InsertObj ==
    /\ \E aabb \in TightBoxes, x_lt_half \in BOOLEAN : Insert(aabb, x_lt_half, MaxNodes)
    /\ UNCHANGED twin

\* remove on a live leaf id
Remove ==
    /\ \E node_id \in live : RemoveCall(node_id)
    /\ UNCHANGED twin

\* move_obj on a live leaf id
MoveObj ==
    /\ \E proxy_id \in live, aabb \in TightBoxes, displacement \in Displacements, x_lt_half \in BOOLEAN :
       MoveCall(proxy_id, aabb, displacement, x_lt_half, MaxNodes)
    /\ UNCHANGED twin

Next == InsertObj \/ Remove \/ MoveObj

\* callers that keep the contract: remove and move_obj on live ids only
Spec == Init /\ [][Next]_vars

InsertObjS ==
    /\ \E aabb \in TightBoxes, x_lt_half \in BOOLEAN : Insert(aabb, x_lt_half, MaxNodesStale)
    /\ UNCHANGED twin

MoveObjS ==
    /\ \E proxy_id \in live, aabb \in TightBoxes, displacement \in Displacements, x_lt_half \in BOOLEAN :
       MoveCall(proxy_id, aabb, displacement, x_lt_half, MaxNodesStale)
    /\ UNCHANGED twin

\* remove on an id already passed to remove
RemoveStale ==
    /\ \E node_id \in removed : RemoveCall(node_id)
    /\ UNCHANGED twin

\* move_obj on an id already passed to remove
MoveObjStale ==
    /\ \E proxy_id \in removed, aabb \in TightBoxes, displacement \in Displacements, x_lt_half \in BOOLEAN :
       MoveCall(proxy_id, aabb, displacement, x_lt_half, MaxNodesStale)
    /\ UNCHANGED twin

NextStale == InsertObjS \/ Remove \/ MoveObjS \/ RemoveStale \/ MoveObjStale

\* callers that also pass ids they have already passed to remove
SpecStale == Init /\ [][NextStale]_vars

\* a node new_internal_node allocated: it carries no payload
InternalId(b, id) == InRange(b, id) /\ node_at(b, id).object = <<>>

\* an id that is no leaf handle: not below the arena length, or an internal node
BadId(b, id) == ~(id < Len(b.nodes)) \/ InternalId(b, id)

\* ids a caller can pass that are no leaf handle of the arena
BadIds == {id \in (0..Len(nodes)) \cup {INVALID_BVH_NODE_ID} : BadId(Tree, id)}

\* remove on an id out of the arena or of an internal node
RemoveInvalid ==
    /\ \E node_id \in BadIds : RemoveCall(node_id)
    /\ UNCHANGED twin

\* move_obj on an id out of the arena or of an internal node
MoveObjInvalid ==
    /\ \E proxy_id \in BadIds, aabb \in TightBoxes, displacement \in Displacements, x_lt_half \in BOOLEAN :
       MoveCall(proxy_id, aabb, displacement, x_lt_half, MaxNodesStale)
    /\ UNCHANGED twin

NextInvalid == InsertObjS \/ Remove \/ MoveObjS \/ RemoveInvalid \/ MoveObjInvalid

\* callers that also pass ids that are no leaf handle
SpecInvalid == Init /\ [][NextInvalid]_vars

\* the displacement of an object that does not move
ZeroDisplacement == vec3(0, 0, 0)

InsertObjT ==
    /\ \E aabb \in TightBoxes, x_lt_half \in BOOLEAN : Insert(aabb, x_lt_half, MaxNodesStill)
    /\ UNCHANGED twin

MoveObjT ==
    /\ \E proxy_id \in live, aabb \in TightBoxes, displacement \in Displacements, x_lt_half \in BOOLEAN :
       MoveCall(proxy_id, aabb, displacement, x_lt_half, MaxNodesStill)
    /\ UNCHANGED twin

\* move_obj on a live leaf id with a zero displacement
MoveObjStill ==
    /\ \E proxy_id \in live, aabb \in TightBoxes, x_lt_half \in BOOLEAN :
       MoveCall(proxy_id, aabb, ZeroDisplacement, x_lt_half, MaxNodesStill)
    /\ UNCHANGED twin

NextStill == InsertObjT \/ Remove \/ MoveObjT \/ MoveObjStill

\* callers that keep the contract and also report objects that stand still
SpecStill == Init /\ [][NextStill]_vars

\* tight boxes of the callers that keep moving a few objects
DeepBoxes == {Cube(vec3(0, 0, 0)), Cube(vec3(6, 0, 0))}

InsertObjD ==
    /\ Cardinality(live \cup removed) < MaxObjectsDeep
    /\ \E aabb \in DeepBoxes, x_lt_half \in BOOLEAN : Insert(aabb, x_lt_half, MaxNodesDeep)
    /\ UNCHANGED twin

MoveObjD ==
    /\ \E proxy_id \in live, aabb \in DeepBoxes, displacement \in Displacements, x_lt_half \in BOOLEAN :
       MoveCall(proxy_id, aabb, displacement, x_lt_half, MaxNodesDeep)
    /\ UNCHANGED twin

NextDeep == InsertObjD \/ Remove \/ MoveObjD

\* callers that keep the contract and move a few objects many times
SpecDeep == Init /\ [][NextDeep]_vars

\* Callers that report the same motion twice: after move_obj(id, T, d) returned
\* true they call move_obj(id, T translated by d, d).
MaxNodesMargin == 5

\* a box moved by displacement d
Translate(a, d) ==
    from_min_max(vec3(a.min[1] + d[1], a.min[2] + d[2], a.min[3] + d[3]),
                 vec3(a.max[1] + d[1], a.max[2] + d[2], a.max[3] + d[3]))

\* displacements of these callers: the one of the other callers and one
\* longer than a fattened cube is wide
MarginDisplacements == Displacements \cup {vec3(4, 0, -4)}

InsertObjM ==
    /\ \E aabb \in TightBoxes, x_lt_half \in BOOLEAN : Insert(aabb, x_lt_half, MaxNodesMargin)
    /\ UNCHANGED twin

MoveObjM ==
    /\ \E proxy_id \in live, aabb \in TightBoxes, displacement \in MarginDisplacements, x_lt_half \in BOOLEAN :
       MoveCall(proxy_id, aabb, displacement, x_lt_half, MaxNodesMargin)
    /\ UNCHANGED twin

\* the second move_obj, directly after one that returned true
MoveObjAgain ==
    /\ last.op = "move_obj"
    /\ last.ret
    /\ last.id \in live
    /\ \E x_lt_half \in BOOLEAN :
       MoveCall(last.id, Translate(tight[last.id], last.d), last.d, x_lt_half, MaxNodesMargin)
    /\ UNCHANGED twin

NextMargin == InsertObjM \/ Remove \/ MoveObjM \/ MoveObjAgain

SpecMargin == Init /\ [][NextMargin]_vars

\* Callers that only insert.
MaxNodesInsertOnly == 7

\* Their boxes: two that overlap once fattened, one near them and one far
\* from all, so that a descent stops at an internal node below the root.
InsertOnlyBoxes == {Cube(vec3(0, 0, 0)), Cube(vec3(2, 1, 0)),
                    Cube(vec3(8, 0, 0)), Cube(vec3(20, 0, 0))}

InsertObjOnly ==
    /\ \E aabb \in InsertOnlyBoxes, x_lt_half \in BOOLEAN : Insert(aabb, x_lt_half, MaxNodesInsertOnly)
    /\ UNCHANGED twin

NextInsertOnly == InsertObjOnly

SpecInsertOnly == Init /\ [][NextInsertOnly]_vars

\* the box min (0,0,0), max (1,1,1)
UnitBox == from_min_max(vec3(0, 0, 0), vec3(10, 10, 10))

\* the ray from (-5, 0.5, 0.5) along +x and the ray from (-5, 2, 2) along +x
HitRay == [origin |-> vec3(-50, 5, 5), dir |-> vec3(1, 0, 0)]
MissRay == [origin |-> vec3(-50, 20, 20), dir |-> vec3(1, 0, 0)]

\* tight boxes of the callers that query with those rays
RayBoxes == {UnitBox} \cup TightBoxes

InsertObjR ==
    /\ \E aabb \in RayBoxes, x_lt_half \in BOOLEAN : Insert(aabb, x_lt_half, MaxNodesStale)
    /\ UNCHANGED twin

MoveObjR ==
    /\ \E proxy_id \in live, aabb \in RayBoxes, displacement \in Displacements, x_lt_half \in BOOLEAN :
       MoveCall(proxy_id, aabb, displacement, x_lt_half, MaxNodesStale)
    /\ UNCHANGED twin

NextRay == InsertObjR \/ Remove \/ MoveObjR

\* callers that keep the contract and also hold the unit box
SpecRay == Init /\ [][NextRay]_vars

\* the BVH value of the second run
TwinTree == [nodes |-> twin.nodes, root_id |-> twin.root_id, panic |-> twin.panic]

TwinStore(b, ret) ==
    twin' = [nodes |-> b.nodes, root_id |-> b.root_id, panic |-> b.panic, ret |-> ret]

\* both runs call insert with the same arguments; x_lt_half and y_lt_half are
\* what rng.gen_range(0.0..1.0) < 0.5 gives in each
InsertBoth ==
    \E aabb \in TightBoxes, x_lt_half \in BOOLEAN, y_lt_half \in BOOLEAN :
        /\ twin.panic = NoPanic
        /\ Len(twin.nodes) + 2 <= MaxNodesTwin
        /\ Insert(aabb, x_lt_half, MaxNodesTwin)
        /\ TwinStore(insert(TwinTree, Cardinality(live \cup removed), aabb, y_lt_half), FALSE)

\* both runs call remove on a live leaf id
RemoveBoth ==
    \E node_id \in live :
        /\ twin.panic = NoPanic
        /\ InRange(TwinTree, node_id)
        /\ RemoveCall(node_id)
        /\ TwinStore(remove(TwinTree, node_id), FALSE)

\* both runs call move_obj on a live leaf id with the same arguments
MoveObjBoth ==
    \E proxy_id \in live, aabb \in TightBoxes, displacement \in Displacements,
       x_lt_half \in BOOLEAN, y_lt_half \in BOOLEAN :
        /\ twin.panic = NoPanic
        /\ InRange(TwinTree, proxy_id)
        /\ IF MoveKeeps(TwinTree, proxy_id, aabb) THEN TRUE
              ELSE Len(twin.nodes) + 1 <= MaxNodesTwin
        /\ MoveCall(proxy_id, aabb, displacement, x_lt_half, MaxNodesTwin)
        /\ LET r == move_obj(TwinTree, proxy_id, aabb, displacement, y_lt_half)
           IN  TwinStore(r.b, r.ret)

NextTwin == InsertBoth \/ RemoveBoth \/ MoveObjBoth

\* two runs of the program given the same sequence of calls
SpecTwin == Init /\ [][NextTwin]_vars

\* Callers of the AABB functions alone: no tree is built.
\* Coordinates of their boxes, points and sphere centers run from 0 to GridMax
\* (spheres and points also one step outside).
GridMax == 2

Grid == 0..GridMax

\* the valid boxes with corners on the grid, degenerate ones included
GridBoxes ==
    {a \in {from_min_max(lo, hi) : lo \in Grid \X Grid \X Grid,
                                   hi \in Grid \X Grid \X Grid} :
        \A i \in 1..3 : a.min[i] <= a.max[i]}

\* planes across the grid: facing +y, -y, +x and the oblique x + y
ProbePlanes ==
    {[normal |-> n, dist |-> d] :
        n \in {vec3(0, 1, 0), vec3(0, -1, 0), vec3(1, 0, 0), vec3(1, 1, 0)},
        d \in (0 - GridMax - 1)..1}

\* frustrums of six planes: five far from the grid and one across it
ProbeFrustrums ==
    {[BoxFrustrum(vec3(-9, -9, -9), vec3(9, 9, 9)) EXCEPT !.planes[1] = plane] :
        plane \in ProbePlanes}

\* A run of these callers is one call: the functions keep no state, and no
\* tree is built.
NoTree ==
    /\ last.op = "new"
    /\ UNCHANGED <<nodes, root_id, panic, live, removed, tight, twin>>

\* a.within_frustrum(f) and b.within_frustrum(f) for a box b that contains a
WithinFrustrumCall ==
    /\ NoTree
    /\ \E a \in GridBoxes, b \in GridBoxes, frustrum \in ProbeFrustrums :
          /\ contains(b, a)
          /\ last' = [op |-> "within_frustrum", a |-> a, b |-> b, frustrum |-> frustrum,
                      ret_a |-> within_frustrum(a, frustrum),
                      ret_b |-> within_frustrum(b, frustrum)]

\* Boxes for bounding_sphere: at (1.0, 1.0, 1.0), extending along x by up to
\* F32Steps steps of 2^-23.
F32Steps == 3

F32Boxes ==
    {a \in {from_min_max(vec3(F32_ONE + lo, F32_ONE, F32_ONE),
                         vec3(F32_ONE + hi, F32_ONE, F32_ONE)) :
                lo \in 0..F32Steps, hi \in 0..F32Steps} :
        a.min[1] <= a.max[1]}

\* a.bounding_sphere()
BoundingSphereCall ==
    /\ NoTree
    /\ \E a \in F32Boxes :
          last' = [op |-> "bounding_sphere", a |-> a, ret |-> bounding_sphere_f32(a)]

\* spheres around and inside the grid: centers below, between and above the
\* faces of the boxes on every axis
ProbeSpheres ==
    {[center |-> vec3(x, y, z), radius |-> r] :
        x \in (0 - 1)..(GridMax + 1), y \in {0 - 1, 1}, z \in {0, GridMax + 1},
        r \in 0..GridMax}

\* a.within_sphere(&sphere)
WithinSphereCall ==
    /\ NoTree
    /\ \E a \in GridBoxes, sphere \in ProbeSpheres :
          last' = [op |-> "within_sphere", a |-> a, sphere |-> sphere,
                   ret |-> within_sphere(a, sphere)]

\* boxes for union: every pair of these points as min and max, so that on
\* each axis min is below, equal to and above max, and the box of AABB::new()
UnionPoints == {vec3(0, 0, 0), vec3(1, 2, 0), vec3(2, 1, 1), vec3(0, 2, 2)}

UnionBoxes == {from_min_max(lo, hi) : lo \in UnionPoints, hi \in UnionPoints} \cup {AABB_new}

\* the unions of three boxes in both orders and groupings, of a box with
\* itself, and of AABB::new() with a box
UnionCall ==
    /\ NoTree
    /\ \E a \in UnionBoxes, b \in UnionBoxes, c \in UnionBoxes :
          last' = [op |-> "union", a |-> a, b |-> b, c |-> c,
                   ab |-> union(a, b),
                   ba |-> union(b, a),
                   aa |-> union(a, a),
                   ab_c |-> union(union(a, b), c),
                   a_bc |-> union(a, union(b, c)),
                   new_b |-> union(AABB_new, b)]

\* points on the grid and one step outside it
ProbePoints ==
    ((0 - 1)..(GridMax + 1)) \X ((0 - 1)..(GridMax + 1)) \X ((0 - 1)..(GridMax + 1))

\* a.contains_point(point), and a.contains(&p) for the box p whose min and max
\* are both point
ContainsPointCall ==
    /\ NoTree
    /\ \E a \in GridBoxes, point \in ProbePoints :
          last' = [op |-> "contains_point", a |-> a, point |-> point,
                   ret |-> contains_point(a, point),
                   ret_box |-> contains(a, from_min_max(point, point))]

NextAABB ==
    WithinFrustrumCall \/ BoundingSphereCall \/ WithinSphereCall \/ UnionCall
        \/ ContainsPointCall

SpecAABB == Init /\ [][NextAABB]_vars

\* ------------------------------------------------------------- iterators
\* Rounds of the pop loop a traversal of an arena of n nodes can need when no
\* cycle is reachable (a node shared by two parents is visited once per path).
IterFuel(b) == 2 ^ (Len(b.nodes) + 1)

\* BVH::iter_sphere: the initial stack
iter_sphere(b) ==
    IF b.root_id # INVALID_BVH_NODE_ID THEN <<b.root_id>> ELSE <<>>

\* BVHSphereIterator::next on a stack: the stack it leaves, the Option it
\* returns (<<>> is None), hang when the loop does not end, and the ids it
\* popped, in order
RECURSIVE sphere_next(_, _, _, _)
sphere_next(b, stack, sphere, fuel) ==
    IF Len(stack) = 0 THEN [stack |-> stack, item |-> <<>>, hang |-> FALSE, popped |-> <<>>]
    ELSE IF fuel = 0 THEN [stack |-> stack, item |-> <<>>, hang |-> TRUE, popped |-> <<>>]
    ELSE LET current_id == stack[Len(stack)]
             rest == SubSeq(stack, 1, Len(stack) - 1)
             current_node == node_at(b, current_id)
             pushed == rest
                       \o (IF current_node.left # INVALID_BVH_NODE_ID
                              THEN <<current_node.left>> ELSE <<>>)
                       \o (IF current_node.right # INVALID_BVH_NODE_ID
                              THEN <<current_node.right>> ELSE <<>>)
             continue(st) == LET r == sphere_next(b, st, sphere, fuel - 1)
                             IN  [r EXCEPT !.popped = <<current_id>> \o @]
         IN  IF ~within_sphere(current_node.volume, sphere)
                 THEN continue(rest)
             ELSE IF current_node.object # <<>>
                 THEN [stack |-> pushed, item |-> current_node.object, hang |-> FALSE,
                       popped |-> <<current_id>>]
             ELSE continue(pushed)

\* BVHFrustrumIterator::next, the same way
RECURSIVE frustrum_next(_, _, _, _)
frustrum_next(b, stack, frustrum, fuel) ==
    IF Len(stack) = 0 THEN [stack |-> stack, item |-> <<>>, hang |-> FALSE, popped |-> <<>>]
    ELSE IF fuel = 0 THEN [stack |-> stack, item |-> <<>>, hang |-> TRUE, popped |-> <<>>]
    ELSE LET current_id == stack[Len(stack)]
             rest == SubSeq(stack, 1, Len(stack) - 1)
             current_node == node_at(b, current_id)
             pushed == rest
                       \o (IF current_node.left # INVALID_BVH_NODE_ID
                              THEN <<current_node.left>> ELSE <<>>)
                       \o (IF current_node.right # INVALID_BVH_NODE_ID
                              THEN <<current_node.right>> ELSE <<>>)
             continue(st) == LET r == frustrum_next(b, st, frustrum, fuel - 1)
                             IN  [r EXCEPT !.popped = <<current_id>> \o @]
         IN  IF ~within_frustrum(current_node.volume, frustrum)
                 THEN continue(rest)
             ELSE IF current_node.object # <<>>
                 THEN [stack |-> pushed, item |-> current_node.object, hang |-> FALSE,
                       popped |-> <<current_id>>]
             ELSE continue(pushed)

\* a next that pushes the children of a node before it tests the node's volume
RECURSIVE ray_next_eager(_, _, _, _)
ray_next_eager(b, stack, ray, fuel) ==
    IF Len(stack) = 0 THEN [stack |-> stack, item |-> <<>>, hang |-> FALSE, popped |-> <<>>]
    ELSE IF fuel = 0 THEN [stack |-> stack, item |-> <<>>, hang |-> TRUE, popped |-> <<>>]
    ELSE LET current_id == stack[Len(stack)]
             rest == SubSeq(stack, 1, Len(stack) - 1)
             current_node == node_at(b, current_id)
             pushed == rest
                       \o (IF current_node.left # INVALID_BVH_NODE_ID
                              THEN <<current_node.left>> ELSE <<>>)
                       \o (IF current_node.right # INVALID_BVH_NODE_ID
                              THEN <<current_node.right>> ELSE <<>>)
             continue(st) == LET r == ray_next_eager(b, st, ray, fuel - 1)
                             IN  [r EXCEPT !.popped = <<current_id>> \o @]
         IN  IF ~raycast(current_node.volume, ray)
                 THEN continue(pushed)
             ELSE IF current_node.object # <<>>
                 THEN [stack |-> pushed, item |-> current_node.object, hang |-> FALSE,
                       popped |-> <<current_id>>]
             ELSE continue(pushed)

\* BVHRayIterator::next, the same way
RECURSIVE ray_next(_, _, _, _)
ray_next(b, stack, ray, fuel) ==
    IF Len(stack) = 0 THEN [stack |-> stack, item |-> <<>>, hang |-> FALSE, popped |-> <<>>]
    ELSE IF fuel = 0 THEN [stack |-> stack, item |-> <<>>, hang |-> TRUE, popped |-> <<>>]
    ELSE LET current_id == stack[Len(stack)]
             rest == SubSeq(stack, 1, Len(stack) - 1)
             current_node == node_at(b, current_id)
             pushed == rest
                       \o (IF current_node.left # INVALID_BVH_NODE_ID
                              THEN <<current_node.left>> ELSE <<>>)
                       \o (IF current_node.right # INVALID_BVH_NODE_ID
                              THEN <<current_node.right>> ELSE <<>>)
             continue(st) == LET r == ray_next(b, st, ray, fuel - 1)
                             IN  [r EXCEPT !.popped = <<current_id>> \o @]
         IN  IF ~raycast(current_node.volume, ray)
                 THEN continue(rest)
             ELSE IF current_node.object # <<>>
                 THEN [stack |-> pushed, item |-> current_node.object, hang |-> FALSE,
                       popped |-> <<current_id>>]
             ELSE continue(pushed)

\* A query q is [kind |-> "sphere", arg |-> a sphere], [kind |-> "frustrum",
\* arg |-> a frustrum] or [kind |-> "ray", arg |-> a ray].
SphereQ(sphere) == [kind |-> "sphere", arg |-> sphere]
FrustrumQ(frustrum) == [kind |-> "frustrum", arg |-> frustrum]
RayQ(ray) == [kind |-> "ray", arg |-> ray]

\* next of the iterator that iter_sphere, iter_frustrum or iter_ray made for q
iter_next(b, stack, q, fuel) ==
    CASE q.kind = "sphere" -> sphere_next(b, stack, q.arg, fuel)
      [] q.kind = "frustrum" -> frustrum_next(b, stack, q.arg, fuel)
      [] q.kind = "ray" -> ray_next(b, stack, q.arg, fuel)

\* the predicate that iterator applies to a volume
Within(volume, q) ==
    CASE q.kind = "sphere" -> within_sphere(volume, q.arg)
      [] q.kind = "frustrum" -> within_frustrum(volume, q.arg)
      [] q.kind = "ray" -> raycast(volume, q.arg)

\* next called until it returns None: the payloads yielded and the ids popped,
\* in order; hang when that never happens
RECURSIVE Drain(_, _, _, _, _)
Drain(b, stack, q, acc, fuel) ==
    LET r == iter_next(b, stack, q, IterFuel(b))
        popped == acc.popped \o r.popped
    IN  IF r.hang THEN [out |-> acc.out, popped |-> popped, hang |-> TRUE]
        ELSE IF r.item = <<>> THEN [out |-> acc.out, popped |-> popped, hang |-> FALSE]
        ELSE IF fuel = 0 THEN [out |-> acc.out, popped |-> popped, hang |-> TRUE]
        ELSE Drain(b, r.stack, q, [out |-> Append(acc.out, r.item[1]), popped |-> popped],
                   fuel - 1)

\* an iterator of the tree run to exhaustion (the three constructors build the
\* same initial stack)
Query(b, q) == Drain(b, iter_sphere(b), q, [out |-> <<>>, popped |-> <<>>], IterFuel(b))

\* bvh.iter_sphere(&sphere).collect()
SphereQuery(b, sphere) == Query(b, SphereQ(sphere)).out

Range(seq) == {seq[i] : i \in 1..Len(seq)}

\* ------------------------------------------------------ tree observations
\* children of node id that are ids of the arena
Children(id) ==
    IF InRange(Tree, id)
        THEN {c \in {get_left(Tree, id), get_right(Tree, id)} : InRange(Tree, c)}
        ELSE {}

RECURSIVE Closure(_, _)
Closure(frontier, seen) ==
    IF frontier \subseteq seen THEN seen
    ELSE Closure(UNION {Children(id) : id \in frontier} \ (seen \cup frontier),
                 seen \cup frontier)

\* the nodes reachable from root_id by following left/right links
Reachable ==
    IF InRange(Tree, root_id) THEN Closure({root_id}, {}) ELSE {}

\* the payload of leaf id
Payload(id) == node_at(Tree, id).object[1]

\* the child links (parent, side) of reachable nodes that lead to node id
LinksTo(id) ==
    {l \in Reachable \X {"left", "right"} :
        IF l[2] = "left" THEN get_left(Tree, l[1]) = id ELSE get_right(Tree, l[1]) = id}

\* queries handed to the three iterators
Queries == {SphereQ(sphere) : sphere \in Spheres}
           \cup {FrustrumQ(frustrum) : frustrum \in Frustrums}
           \cup {RayQ(ray) : ray \in Rays}

\* the nodes on a path from root_id whose proper ancestors all satisfy the
\* predicate of q
RECURSIVE PassClosure(_, _, _)
PassClosure(frontier, seen, q) ==
    IF frontier \subseteq seen THEN seen
    ELSE LET new == frontier \ seen
             pass == {n \in new : Within(get_volume(Tree, n), q)}
         IN  PassClosure(UNION {Children(n) : n \in pass}, seen \cup new, q)

BelowPassing(q) ==
    IF InRange(Tree, root_id) THEN PassClosure({root_id}, {}, q) ELSE {}

\* the eight corners of a box
Corners(a) == {vec3(x, y, z) : x \in {a.min[1], a.max[1]}, y \in {a.min[2], a.max[2]},
                               z \in {a.min[3], a.max[3]}}

\* every reachable internal node holds the union of its children's volumes
UnionHolds ==
    \A n \in Reachable :
        ~is_leaf(node_at(Tree, n)) =>
            /\ InRange(Tree, get_left(Tree, n)) /\ InRange(Tree, get_right(Tree, n))
            /\ get_volume(Tree, n) = union(get_volume(Tree, get_left(Tree, n)),
                                           get_volume(Tree, get_right(Tree, n)))

\* box a is not entirely behind any plane of the frustrum: for every plane some
\* corner c of a has normal.dot(c) + dist >= 0
InFrontOfAll(a, frustrum) ==
    \A i \in 1..Len(frustrum.planes) :
        \E c \in Corners(a) : dot(frustrum.planes[i].normal, c) + frustrum.planes[i].dist >= 0

\* box a is entirely behind every plane of the frustrum: every corner c of a
\* has normal.dot(c) + dist < 0 for every plane
BehindAll(a, frustrum) ==
    \A i \in 1..Len(frustrum.planes) :
        \A c \in Corners(a) : dot(frustrum.planes[i].normal, c) + frustrum.planes[i].dist < 0

\* node n of tree b and the nodes above it along parent_id
RECURSIVE Ancestors(_, _, _)
Ancestors(b, n, fuel) ==
    IF ~InRange(b, n) \/ fuel = 0 THEN {}
    ELSE {n} \cup Ancestors(b, get_parent_id(b, n), fuel - 1)

\* min <= max on every axis
Valid(a) == \A i \in 1..3 : a.min[i] <= a.max[i]

\* The tree on which the step's call enters insert_leaf, with the new leaf's
\* volume set: in insert after the fattening, in move_obj after remove_leaf and
\* the prediction.
AtInsertLeaf ==
    IF last'.op = "insert"
        THEN LET b1 == allocate_node(Tree, 0, tight'[last'.id])
             IN  set_volume(b1, last'.id, Fatten(get_volume(b1, last'.id)))
        ELSE set_volume(remove_leaf(Tree, last'.id), last'.id,
                        Predict(Fatten(tight'[last'.id]), last'.d))

\* the tree after the step
TreeNext == [nodes |-> nodes', root_id |-> root_id', panic |-> panic']

\* the program is running: the last call returned
Running == panic = NoPanic

\* ----------------------------------------------------------------- claims

\* C1: after any sequence of insert, remove and move_obj on live leaf ids,
\* every live leaf is reachable from root_id through left/right links, and a
\* query whose predicate accepts every volume yields its payload.
C1_LiveLeavesReachable ==
    Running =>
        \A id \in live :
            /\ id \in Reachable
            /\ Payload(id) \in Range(SphereQuery(Tree, AllSphere))

\* C2: a leaf passed to remove is not reachable from root_id, and stays
\* unreachable (no iterator yields its payload) under every later insert,
\* remove or move_obj on other live ids.
C2_RemovedStaysUnreachable ==
    Running =>
        \A id \in removed :
            /\ id \notin Reachable
            /\ Payload(id) \notin Range(SphereQuery(Tree, AllSphere))

\* C3: union invariant: every internal node reachable from root_id has volume
\* equal to the union of the volumes of its left and right child.
C3_UnionInvariant ==
    Running =>
        \A n \in Reachable :
            ~is_leaf(node_at(Tree, n)) =>
                get_volume(Tree, n) = union(get_volume(Tree, get_left(Tree, n)),
                                            get_volume(Tree, get_right(Tree, n)))

\* C4: containment invariant: the stored volume of every live leaf contains,
\* on every axis, the tight AABB last supplied for it through insert or
\* move_obj, also when the last move_obj returned false.
C4_Containment ==
    Running =>
        \A id \in live : contains(get_volume(Tree, id), tight[id])

\* C5: for every sphere S, iter_sphere(S) yields exactly the payloads of the
\* live leaves whose stored volume satisfies within_sphere(S).
C5_SphereQueryIsLinearScan ==
    Running =>
        \A sphere \in Spheres :
            Range(SphereQuery(Tree, sphere))
                = {Payload(id) : id \in {l \in live : within_sphere(get_volume(Tree, l), sphere)}}

\* C6: root_id is INVALID_BVH_NODE_ID exactly when there is no live leaf.
C6_RootInvalidIffEmpty ==
    Running => (root_id = INVALID_BVH_NODE_ID <=> live = {})

\* C7: the nodes reachable from root_id form a proper binary tree: every
\* reachable internal node has two valid, different children, no node is
\* reachable along two paths, and no iterator yields a leaf twice.
C7_ProperBinaryTree ==
    Running =>
        /\ \A n \in Reachable :
              /\ ~is_leaf(node_at(Tree, n)) =>
                    /\ InRange(Tree, get_left(Tree, n))
                    /\ InRange(Tree, get_right(Tree, n))
                    /\ get_left(Tree, n) # get_right(Tree, n)
              /\ Cardinality(LinksTo(n)) = (IF n = root_id THEN 0 ELSE 1)
        /\ LET out == SphereQuery(Tree, AllSphere)
           IN  Cardinality(Range(out)) = Len(out)

\* C8: move_obj on a live leaf returns false exactly when the leaf's stored
\* volume contains the tight box passed, and true in every other case.
C8_MoveReturnsFalseIffContained ==
    (Running /\ last.op = "move_obj" /\ ~last.stale) =>
        (last.ret = FALSE <=> last.contained)

\* C9: move_obj on the only live leaf of the tree does not trap, and when it
\* re-inserts the leaf it ends with that leaf as root_id carrying the new
\* volume.
C9_MoveOnlyLeaf ==
    (last.op = "move_obj" /\ live = {last.id}) =>
        /\ panic = NoPanic
        /\ last.ret =>
              /\ root_id = last.id
              /\ get_volume(Tree, last.id) = Predict(Fatten(tight[last.id]), last.d)

\* C10: remove or move_obj on an id already passed to remove is rejected: the
\* call traps instead of returning with root_id or a node modified.
C10_StaleIdRejected ==
    last.stale => panic # NoPanic

\* C11: remove and move_obj called with an id that is not below the arena
\* length, or with the id of an internal node (reachable or not), trap on their
\* assertion and leave root_id and every node as they were.
C11_InvalidIdTraps ==
    [][(last'.op \in {"remove", "move_obj"} /\ BadId(Tree, last'.id)) =>
          (panic' = AssertPanic /\ nodes' = nodes /\ root_id' = root_id)]_vars

\* move_obj on an internal node that is no longer in the tree has trapped
C11_Witness ==
    /\ panic = AssertPanic
    /\ last.op = "move_obj"
    /\ InternalId(Tree, last.id)
    /\ last.id \notin Reachable

\* C12: move stability: move_obj on a live leaf with a tight AABB that its
\* stored volume already contains and a zero displacement returns false and
\* leaves root_id and every arena node identical to before the call.
C12_MoveStability ==
    [][(/\ last'.op = "move_obj"
        /\ last'.id \in live
        /\ last'.d = ZeroDisplacement
        /\ last'.contained) =>
          (/\ panic' = NoPanic
           /\ last'.ret = FALSE
           /\ nodes' = nodes
           /\ root_id' = root_id)]_vars

\* such a call has returned for a leaf that has ancestors
C12_Witness ==
    /\ Running
    /\ last.op = "move_obj"
    /\ last.id \in live
    /\ last.d = ZeroDisplacement
    /\ last.contained
    /\ last.id \in Reachable
    /\ last.id # root_id

\* C13: when move_obj(id, tight, d) returns true, the leaf's stored volume is
\* tight expanded by AABB_EXTENSION on both sides of every axis, then extended
\* by 2*d along the movement: min lowered by |2*d| on an axis where d is
\* negative, max raised by 2*d otherwise.
C13_PredictedVolume ==
    (Running /\ last.op = "move_obj" /\ last.ret) =>
        LET t == tight[last.id]
            v == get_volume(Tree, last.id)
        IN  \A i \in 1..3 :
                IF last.d[i] < 0
                    THEN /\ v.min[i] = t.min[i] - AABB_EXTENSION + 2 * last.d[i]
                         /\ v.max[i] = t.max[i] + AABB_EXTENSION
                    ELSE /\ v.min[i] = t.min[i] - AABB_EXTENSION
                         /\ v.max[i] = t.max[i] + AABB_EXTENSION + 2 * last.d[i]

\* move_obj has returned true for a displacement with a negative, a zero and
\* a positive component
C13_Witness ==
    /\ Running
    /\ last.op = "move_obj"
    /\ last.ret
    /\ last.d = vec3(-1, 0, 1)
    /\ last.id \in Reachable

C15_IdsPermanent ==
    [][/\ last'.op = "insert" => last'.id \notin live \cup removed
       /\ \A id \in live \cap live' :
             /\ InRange(Tree, id) /\ id < Len(nodes')
             /\ nodes'[id + 1].left = INVALID_BVH_NODE_ID
             /\ nodes'[id + 1].object = nodes[id + 1].object
             /\ nodes'[id + 1].volume # nodes[id + 1].volume =>
                    (last'.op = "move_obj" /\ last'.id = id)]_vars

\* a leaf has kept its id while a later leaf was removed and another moved
C15_Witness ==
    /\ Running
    /\ last.op = "move_obj"
    /\ last.ret
    /\ removed # {}
    /\ \E id \in live : id # last.id /\ \E r \in removed : id < r

\* C16: each of the three iterators, run to exhaustion over a fixed tree,
\* yields a payload for node n exactly when n carries a payload and the
\* predicate holds for the volume of n and of every node on the path from
\* root_id to n; no descendant of a node whose volume fails the predicate is
\* visited.
C16_IteratorYield ==
    Running =>
        \A q \in Queries :
            LET run == Query(Tree, q)
                visit == BelowPassing(q)
                yield == {n \in visit : /\ Within(get_volume(Tree, n), q)
                                        /\ node_at(Tree, n).object # <<>>}
            IN  /\ ~run.hang
                /\ Range(run.out) = {Payload(n) : n \in yield}
                /\ Range(run.popped) = visit

\* C17: for every tree state reachable by insert, remove and move_obj on live
\* ids, an iterator made by iter_frustrum, iter_sphere or iter_ray is exhausted
\* after finitely many steps, and the number of nodes it pops never exceeds the
\* number of nodes in the arena.
C17_IterationBounded ==
    Running =>
        \A q \in Queries :
            LET run == Query(Tree, q)
            IN  ~run.hang /\ Len(run.popped) <= Len(nodes)

\* each of the three iterators has yielded a payload from a tree in which it
\* discarded an internal node
C16_Witness ==
    /\ Running
    /\ \A kind \in {"sphere", "frustrum", "ray"} :
           \E q \in Queries :
               /\ q.kind = kind
               /\ Query(Tree, q).out # <<>>
               /\ \E n \in BelowPassing(q) :
                      /\ ~is_leaf(node_at(Tree, n))
                      /\ ~Within(get_volume(Tree, n), q)

\* a query has popped every node of an arena without a detached node
C17_Witness ==
    /\ Running
    /\ Len(nodes) >= 5
    /\ \E q \in Queries : Len(Query(Tree, q).popped) = Len(nodes)

\* C18: the random left/right choice of new_internal_node has no effect on
\* results: two runs given the same sequence of insert, remove and move_obj
\* with the same arguments but different random choices give the same
\* move_obj return values and, for every query, the same set of yielded
\* payloads.
C18_RandomChoiceUnobservable ==
    /\ panic = twin.panic
    /\ Running =>
          /\ last.op = "move_obj" => last.ret = twin.ret
          /\ \A q \in Queries :
                Range(Query(Tree, q).out) = Range(Query(TwinTree, q).out)

\* C19: frustum culling is conservative: in a tree that satisfies the union
\* invariant, iter_frustrum yields every reachable leaf whose volume is not
\* entirely behind any of the six planes.
C19_FrustrumConservative ==
    (Running /\ UnionHolds) =>
        \A frustrum \in Frustrums :
            \A n \in Reachable :
                (is_leaf(node_at(Tree, n)) /\ InFrontOfAll(get_volume(Tree, n), frustrum)) =>
                    Payload(n) \in Range(Query(Tree, FrustrumQ(frustrum)).out)

\* in a tree with the union invariant a frustrum query has yielded a leaf
\* below the root that is in front of all planes, and culled another leaf
C19_Witness ==
    /\ Running
    /\ UnionHolds
    /\ \E frustrum \in Frustrums :
           \E n \in Reachable, m \in Reachable :
               /\ n # root_id
               /\ is_leaf(node_at(Tree, n)) /\ is_leaf(node_at(Tree, m))
               /\ InFrontOfAll(get_volume(Tree, n), frustrum)
               /\ Payload(n) \in Range(Query(Tree, FrustrumQ(frustrum)).out)
               /\ Payload(m) \notin Range(Query(Tree, FrustrumQ(frustrum)).out)

\* C20: ray scenario: in a tree holding a single leaf inserted with the tight
\* AABB min (0,0,0), max (1,1,1), iter_ray yields the leaf for the ray with
\* origin (-5, 0.5, 0.5) and direction (1,0,0), and yields nothing for the ray
\* with origin (-5, 2, 2) and the same direction.
C20_RayScenario ==
    (/\ Running
     /\ last.op = "insert"
     /\ live = {last.id}
     /\ Len(nodes) = 1
     /\ tight[last.id] = UnitBox) =>
        /\ Query(Tree, RayQ(HitRay)).out = <<Payload(last.id)>>
        /\ Query(Tree, RayQ(MissRay)).out = <<>>

\* the single leaf of the scenario has been inserted
C20_Witness ==
    /\ Running
    /\ last.op = "insert"
    /\ live = {last.id}
    /\ Len(nodes) = 1
    /\ tight[last.id] = UnitBox
    /\ raycast(get_volume(Tree, last.id), HitRay)
    /\ ~raycast(get_volume(Tree, last.id), MissRay)

\* C21: a leaf whose volume lies entirely behind every one of the frustum's
\* six planes is never yielded by iter_frustrum.
C21_BehindAllExcluded ==
    Running =>
        \A frustrum \in Frustrums \cup BehindFrustrums :
            \A n \in Reachable :
                (is_leaf(node_at(Tree, n)) /\ BehindAll(get_volume(Tree, n), frustrum)) =>
                    Payload(n) \notin Range(Query(Tree, FrustrumQ(frustrum)).out)

\* C22: the arena length never decreases: remove and a move_obj that returns
\* false leave it unchanged, insert adds one node to an empty tree and two
\* otherwise, a move_obj that returns true adds one; no slot of a removed leaf
\* or of a dead parent is reused by a later allocation (every slot keeps what
\* it was allocated as, and new nodes come after the old ones).
C22_ArenaGrowth ==
    [][panic' = NoPanic =>
          /\ Len(nodes') >= Len(nodes)
          /\ last'.op = "remove" => Len(nodes') = Len(nodes)
          /\ last'.op = "move_obj" =>
                Len(nodes') = Len(nodes) + (IF last'.ret THEN 1 ELSE 0)
          /\ last'.op = "insert" =>
                /\ Len(nodes') = Len(nodes) + (IF root_id = INVALID_BVH_NODE_ID THEN 1 ELSE 2)
                /\ last'.id = Len(nodes)
          /\ \A i \in 1..Len(nodes) : nodes'[i].object = nodes[i].object]_vars

\* C23: remove_leaf on a live non-root leaf with parent p, sibling s and
\* grandparent g puts s in p's former place: afterwards s.parent_id == g
\* (INVALID when p was the root), root_id == s when p was the root, otherwise
\* the child slot of g that held p holds s and every ancestor from g up to
\* the root has been refit.
C23_RemoveLeafSplice ==
    [][(/\ last'.op = "remove"
        /\ panic' = NoPanic
        /\ last'.id \in live
        /\ last'.id # root_id
        /\ InRange(Tree, get_parent_id(Tree, last'.id))) =>
          LET leaf == last'.id
              p == get_parent_id(Tree, leaf)
              g == get_parent_id(Tree, p)
              s == IF get_left(Tree, p) = leaf THEN get_right(Tree, p) ELSE get_left(Tree, p)
          IN  /\ get_parent_id(TreeNext, s) = g
              /\ g = INVALID_BVH_NODE_ID => root_id' = s
              /\ g # INVALID_BVH_NODE_ID =>
                    /\ get_left(Tree, g) = p => get_left(TreeNext, g) = s
                    /\ get_left(Tree, g) # p => get_right(TreeNext, g) = s
                    /\ \A a \in Ancestors(TreeNext, g, Len(nodes)) :
                          get_volume(TreeNext, a)
                              = union(get_volume(TreeNext, get_left(TreeNext, a)),
                                      get_volume(TreeNext, get_right(TreeNext, a)))]_vars

\* C24: parent links agree with child links in every reachable state: the
\* node at root_id has parent_id == INVALID, and for every internal node n
\* reachable from root_id both children have parent_id == n.
C24_ParentLinksAgree ==
    Running =>
        /\ InRange(Tree, root_id) => get_parent_id(Tree, root_id) = INVALID_BVH_NODE_ID
        /\ \A n \in Reachable :
              ~is_leaf(node_at(Tree, n)) =>
                  \A c \in Children(n) : get_parent_id(Tree, c) = n

\* C25: for any sequence of insert, remove and move_obj on live leaf ids the
\* internal assertions never fail: in insert_leaf the chosen sibling is the
\* left or the right child of the node its parent_id names, and in
\* adjust_bounds every node walked has two valid children.
C25_AssertionsHold ==
    panic # AssertPanic

\* C26: for any sequence made of insert calls only the tree is well formed
\* after each call: the leaves reachable from root_id are exactly the inserted
\* leaves, each along one path; the reachable internal nodes number the leaves
\* minus one; parent links agree with child links; the union invariant holds.
C26_InsertOnlyWellFormed ==
    /\ panic = NoPanic
    /\ {n \in Reachable : is_leaf(node_at(Tree, n))} = live
    /\ \A n \in Reachable : Cardinality(LinksTo(n)) = (IF n = root_id THEN 0 ELSE 1)
    /\ LET out == SphereQuery(Tree, AllSphere)
       IN  /\ Len(out) = Cardinality(live)
           /\ Range(out) = {Payload(id) : id \in live}
    /\ live # {} =>
          Cardinality({n \in Reachable : ~is_leaf(node_at(Tree, n))}) = Cardinality(live) - 1
    /\ InRange(Tree, root_id) => get_parent_id(Tree, root_id) = INVALID_BVH_NODE_ID
    /\ \A n \in Reachable :
          ~is_leaf(node_at(Tree, n)) =>
              /\ get_left(Tree, n) # get_right(Tree, n)
              /\ \A c \in {get_left(Tree, n), get_right(Tree, n)} :
                    InRange(Tree, c) /\ get_parent_id(Tree, c) = n
    /\ UnionHolds

\* four inserts have returned, the last one below a node that is not the root
C26_Witness ==
    /\ Running
    /\ Cardinality(live) = 4
    /\ last.op = "insert"
    /\ get_parent_id(Tree, last.id) # root_id
    /\ get_right(Tree, get_parent_id(Tree, get_parent_id(Tree, last.id))) = get_parent_id(Tree, last.id)

\* the cost rule of the descent, as a walk from node index of tree b for a new
\* leaf of volume aabb: the node at which the walk stops
RECURSIVE SiblingByCost(_, _, _, _)
SiblingByCost(b, index, aabb, fuel) ==
    IF fuel = 0 \/ is_leaf(node_at(b, index)) THEN index
    ELSE LET node == get_volume(b, index)
             grow == 2 * (area(union(node, aabb)) - area(node))
             ChildCost(c) ==
                 grow + (IF is_leaf(node_at(b, c))
                            THEN area(union(get_volume(b, c), aabb))
                            ELSE area(union(get_volume(b, c), aabb)) - area(get_volume(b, c)))
             l == get_left(b, index)
             r == get_right(b, index)
         IN  IF 2 * area(union(node, aabb)) < ChildCost(l) /\ 2 * area(union(node, aabb)) < ChildCost(r)
                 THEN index
             ELSE IF ChildCost(l) < ChildCost(r) THEN SiblingByCost(b, l, aabb, fuel - 1)
             ELSE SiblingByCost(b, r, aabb, fuel - 1)

\* C27: the descent of insert_leaf from the root stops at the first node that
\* is a leaf or whose new-parent cost 2*area(node u new) is strictly below both
\* child costs, and that node becomes the new leaf's sibling; otherwise it steps
\* to the child with the smaller cost (right on a tie), a child's cost being
\* 2*(area(node u new) - area(node)) plus area(child u new) for a leaf child or
\* area(child u new) - area(child) for an internal child.
C27_DescentByCost ==
    [][(last'.op = "insert" /\ panic' = NoPanic /\ root_id # INVALID_BVH_NODE_ID) =>
          LET new_node == last'.id
              new_parent == get_parent_id(TreeNext, new_node)
              sibling == IF get_left(TreeNext, new_parent) = new_node
                            THEN get_right(TreeNext, new_parent)
                            ELSE get_left(TreeNext, new_parent)
          IN  /\ InRange(TreeNext, new_parent)
              /\ new_node \in {get_left(TreeNext, new_parent), get_right(TreeNext, new_parent)}
              /\ sibling = SiblingByCost(Tree, root_id, get_volume(TreeNext, new_node),
                                        Len(nodes) + 1)]_vars

\* an insert has stepped down from the root and stopped at an internal node,
\* pairing its leaf with it
C27_Witness ==
    /\ Running
    /\ last.op = "insert"
    /\ last.id # root_id
    /\ LET new_parent == get_parent_id(Tree, last.id)
           sibling == IF get_left(Tree, new_parent) = last.id
                         THEN get_right(Tree, new_parent)
                         ELSE get_left(Tree, new_parent)
       IN  /\ get_parent_id(Tree, new_parent) # INVALID_BVH_NODE_ID
           /\ ~is_leaf(node_at(Tree, sibling))

\* C28: predictive margin: directly after move_obj(id, T, d) returned true, a
\* second move_obj on the same id with the tight AABB T translated by d and the
\* same displacement d returns false and changes nothing.
C28_PredictiveMargin ==
    [][(/\ Running /\ last.op = "move_obj" /\ last.ret /\ last.id \in live
        /\ last'.op = "move_obj"
        /\ last'.id = last.id
        /\ last'.d = last.d
        /\ tight'[last.id] = Translate(tight[last.id], last.d)) =>
          (/\ panic' = NoPanic
           /\ last'.ret = FALSE
           /\ nodes' = nodes
           /\ root_id' = root_id)]_vars

\* the second call has returned false for a box that lies outside the fattened
\* box of the first call: the leaf's stored volume is the one predicted for the
\* box one displacement back
C28_Witness ==
    /\ Running
    /\ last.op = "move_obj"
    /\ ~last.ret
    /\ last.id \in live
    /\ last.id # root_id
    /\ last.d = vec3(4, 0, -4)
    /\ LET before == Translate(tight[last.id], vec3(-4, 0, 4))
       IN  /\ get_volume(Tree, last.id) = Predict(Fatten(before), last.d)
           /\ ~intersects(Fatten(before), tight[last.id])

\* C29: provided every tight AABB given to insert and move_obj is valid
\* (min <= max on each axis), every box whose area() is evaluated during
\* insert_leaf is valid, and the inverted placeholder volume that
\* new_internal_node gives a new internal node is overwritten by adjust_bounds
\* before any area or predicate reads it: no call returns with the placeholder
\* or any other inverted box in the arena.
C29_NoInvertedBoxRead ==
    [][/\ (/\ Running
           /\ last'.id \in live'
           /\ \/ last'.op = "insert"
              \/ last'.op = "move_obj" /\ ~MoveKeeps(Tree, last'.id, tight'[last'.id])) =>
             LET b == AtInsertLeaf
             IN  (b.panic = NoPanic /\ b.root_id # last'.id) =>
                     \A a \in AreaReads(b, b.root_id, get_volume(b, last'.id), Len(b.nodes) + 1) :
                         Valid(a)
       /\ panic' = NoPanic =>
             \A i \in 1..Len(nodes') :
                 nodes'[i].volume # AABB_new /\ Valid(nodes'[i].volume)]_vars

\* an insert has descended through an internal node that an earlier insert
\* created, and has returned with a valid box in its own new internal node
C29_Witness ==
    /\ Running
    /\ last.op = "insert"
    /\ last.id # root_id
    /\ LET new_parent == get_parent_id(Tree, last.id)
       IN  /\ new_parent = Len(nodes) - 1
           /\ get_parent_id(Tree, new_parent) = root_id
           /\ ~is_leaf(node_at(Tree, root_id))
           /\ Valid(get_volume(Tree, new_parent))

\* C30: for every node reachable from root_id, height is the tree height from
\* that node downward: 0 for a leaf and 1 + max(height of left child, height of
\* right child) for an internal node, after any sequence of operations.
C30_HeightInvariant ==
    Running =>
        \A n \in Reachable :
            IF is_leaf(node_at(Tree, n))
                THEN node_at(Tree, n).height = 0
                ELSE \A l \in {get_left(Tree, n)} \cap Reachable, r \in {get_right(Tree, n)} \cap Reachable :
                        node_at(Tree, n).height
                            = 1 + Max(node_at(Tree, l).height, node_at(Tree, r).height)

\* C31: within_frustrum is monotone under box growth: for valid boxes a and b
\* where b contains a and for any six planes, within_frustrum(a) true implies
\* within_frustrum(b) true, also when a passes only through the
\* bounding-sphere fallback.
C31_FrustrumMonotone ==
    (last.op = "within_frustrum" /\ last.ret_a) => last.ret_b

\* C32: bounding_sphere never under-covers the box: for every valid AABB the
\* squared distance from the sphere's center to each of the box's eight
\* corners is at most the squared radius.
C32_SphereCoversBox ==
    last.op = "bounding_sphere" =>
        \A c \in Corners(last.a) :
            Sq(c[1] - last.ret.center[1]) + Sq(c[2] - last.ret.center[2])
                + Sq(c[3] - last.ret.center[3]) <= Sq(last.ret.radius)

\* the squared distance from point p to box a: over the axes, the squared
\* distance to the nearest face, 0 where p lies between min and max
DistanceSq(p, a) ==
    LET gap(i) == IF p[i] < a.min[i] THEN a.min[i] - p[i]
                  ELSE IF p[i] > a.max[i] THEN p[i] - a.max[i]
                  ELSE 0
    IN  Sq(gap(1)) + Sq(gap(2)) + Sq(gap(3))

\* C33: for a valid box, within_sphere(S) is true exactly when the squared
\* distance from S.center to the box is strictly less than S.radius squared; a
\* sphere that only touches the box is not within.
C33_WithinSphereIsDistance ==
    last.op = "within_sphere" =>
        (last.ret <=> DistanceSq(last.sphere.center, last.a) < Sq(last.sphere.radius))

\* within_sphere has returned false for a sphere that touches the box from
\* outside on one axis
C33_Witness ==
    /\ last.op = "within_sphere"
    /\ ~last.ret
    /\ last.sphere.radius > 0
    /\ DistanceSq(last.sphere.center, last.a) = Sq(last.sphere.radius)
    /\ last.sphere.center[1] < last.a.min[1]

\* C34: AABB union is the component-wise min of mins and max of maxes: it is
\* commutative, associative and idempotent, its result contains both operands,
\* and the inverted box built by AABB::new() is its identity
\* (union(new(), b) == b for every box b with finite coordinates).
C34_UnionAlgebra ==
    last.op = "union" =>
        /\ \A i \in 1..3 :
              /\ last.ab.min[i] \in {last.a.min[i], last.b.min[i]}
              /\ last.ab.min[i] <= last.a.min[i] /\ last.ab.min[i] <= last.b.min[i]
              /\ last.ab.max[i] \in {last.a.max[i], last.b.max[i]}
              /\ last.ab.max[i] >= last.a.max[i] /\ last.ab.max[i] >= last.b.max[i]
        /\ last.ab = last.ba
        /\ last.ab_c = last.a_bc
        /\ last.aa = last.a
        /\ contains(last.ab, last.a)
        /\ contains(last.ab, last.b)
        /\ last.new_b = last.b

\* the union of two valid boxes of which neither contains the other, and of
\* AABB::new() with the second of them
C34_Witness ==
    /\ last.op = "union"
    /\ \A i \in 1..3 : last.a.min[i] <= last.a.max[i] /\ last.b.min[i] <= last.b.max[i]
    /\ ~contains(last.a, last.b)
    /\ ~contains(last.b, last.a)
    /\ last.ab \notin {last.a, last.b}
    /\ last.c = AABB_new
    /\ last.new_b = last.b

\* C36: contains_point(p) is true exactly when p lies in the closed box
\* (min <= p <= max on every axis), that is, it agrees with contains applied to
\* the degenerate box whose min and max are both p.
C36_ContainsPointIsClosedBox ==
    last.op = "contains_point" =>
        /\ last.ret <=> \A i \in 1..3 : last.a.min[i] <= last.point[i]
                                         /\ last.point[i] <= last.a.max[i]
        /\ last.ret = last.ret_box

\* C35: for every node in the arena, in every reachable state:
\* left == INVALID exactly when right == INVALID exactly when the node carries
\* Some(payload); leaves carry a payload, internal nodes carry None, and a node
\* never changes between leaf and internal.
C35_NodeKinds ==
    [][/\ \A i \in 1..Len(nodes') :
             /\ nodes'[i].left = INVALID_BVH_NODE_ID <=> nodes'[i].right = INVALID_BVH_NODE_ID
             /\ nodes'[i].left = INVALID_BVH_NODE_ID <=> Len(nodes'[i].object) = 1
             /\ nodes'[i].left # INVALID_BVH_NODE_ID <=> nodes'[i].object = <<>>
       /\ Len(nodes') >= Len(nodes)
       /\ \A i \in 1..Len(nodes) : is_leaf(nodes'[i]) <=> is_leaf(nodes[i])]_vars

\* the arena holds a leaf that was removed and an internal node that was cut
\* out of the tree, and a later move_obj has relinked a leaf
C35_Witness ==
    /\ Running
    /\ last.op = "move_obj"
    /\ last.ret
    /\ removed # {}
    /\ \E i \in 1..Len(nodes) : ~is_leaf(nodes[i]) /\ (i - 1) \notin Reachable
    /\ \E n \in Reachable : ~is_leaf(node_at(Tree, n))

====
